---- MODULE Spec2Model ----
(***************************************************************************)
(* certshop: the export command (parseExportFlags, findFile,               *)
(* exportCertificate, exportPEM, exportP12).                               *)
(*                                                                         *)
(* A Go string that is used as a path is represented by the sequence of    *)
(* its pieces between '/' separators:                                      *)
(*      ""        <<"">>              "."      <<".">>                     *)
(*      "/"       <<"", "">>          "a/b"    <<"a", "b">>                *)
(*      "/a"      <<"", "a">>         "a//b"   <<"a", "", "b">>            *)
(* so that string equality is sequence equality, and joining two strings   *)
(* with a separator is the concatenation of their piece sequences.         *)
(***************************************************************************)
EXTENDS Integers, Sequences, FiniteSets, TLC

\* ------------------------------------------------------------------------
\* Strings and path/filepath
\* ------------------------------------------------------------------------

\* The "flag not supplied" marker, a non-empty string without a separator.
nilString == <<"\\x00">>

EmptyString == <<"">>

Last(s) == s[Len(s)]

Front(s) == SubSeq(s, 1, Len(s) - 1)

\* s + suffix, for a suffix that holds no separator.
StrCat(s, suffix) == [s EXCEPT ![Len(s)] = @ \o suffix]

\* A path is rooted when its string starts with a separator.
IsRooted(p) == Len(p) >= 2 /\ p[1] = ""

\* filepath.Clean's element loop: the cleaned elements of pieces[i..],
\* given the elements `out` kept so far.
RECURSIVE CleanScan(_, _, _, _)
CleanScan(pieces, i, out, rooted) ==
    IF i > Len(pieces) THEN out
    ELSE LET e == pieces[i] IN
         IF e = "" \/ e = "."
           THEN CleanScan(pieces, i + 1, out, rooted)
         ELSE IF e = ".."
           THEN IF Len(out) > 0 /\ Last(out) # ".."
                  THEN CleanScan(pieces, i + 1, Front(out), rooted)
                ELSE IF rooted
                  THEN CleanScan(pieces, i + 1, out, rooted)
                ELSE CleanScan(pieces, i + 1, Append(out, ".."), rooted)
         ELSE CleanScan(pieces, i + 1, Append(out, e), rooted)

\* filepath.Clean: the shortest equivalent path; "" cleans to ".".
Clean(p) ==
    LET rooted == IsRooted(p)
        out    == CleanScan(p, 1, <<>>, rooted)
    IN  IF rooted
          THEN IF out = <<>> THEN <<"", "">> ELSE <<"">> \o out
          ELSE IF out = <<>> THEN <<".">> ELSE out

RECURSIVE StripTrailing(_)
StripTrailing(p) ==
    IF Len(p) > 1 /\ Last(p) = "" THEN StripTrailing(Front(p)) ELSE p

\* filepath.Base: the last element; "." for "", "/" for a path of separators.
Base(p) ==
    IF p = EmptyString THEN <<".">>
    ELSE LET q == StripTrailing(p) IN
         IF Last(q) = "" THEN <<"", "">> ELSE <<Last(q)>>

\* filepath.Dir: Clean of everything up to and including the last separator.
Dir(p) ==
    IF Len(p) = 1 THEN Clean(EmptyString)
    ELSE Clean([p EXCEPT ![Len(p)] = ""])

\* filepath.Join(a, b): empty elements are dropped, the rest joined with a
\* separator and cleaned.
Join(a, b) ==
    IF a = EmptyString /\ b = EmptyString THEN EmptyString
    ELSE IF a = EmptyString THEN Clean(b)
    ELSE IF b = EmptyString THEN Clean(a)
    ELSE Clean(a \o b)

\* A string that is not a path (the export format) is the sequence of its
\* characters: "pem" is <<"p", "e", "m">>.
UpperLetters ==
    <<"A", "B", "C", "D", "E", "F", "G", "H", "I", "J", "K", "L", "M",
      "N", "O", "P", "Q", "R", "S", "T", "U", "V", "W", "X", "Y", "Z">>

LowerLetters ==
    <<"a", "b", "c", "d", "e", "f", "g", "h", "i", "j", "k", "l", "m",
      "n", "o", "p", "q", "r", "s", "t", "u", "v", "w", "x", "y", "z">>

\* unicode.ToLower of one character: a capital letter becomes its small
\* letter, every other character stays.
LowerChar(c) ==
    IF \E i \in 1..Len(UpperLetters) : UpperLetters[i] = c
      THEN LowerLetters[CHOOSE i \in 1..Len(UpperLetters) : UpperLetters[i] = c]
      ELSE c

\* strings.ToLower: every character of s lower-cased.
ToLower(s) == [i \in 1..Len(s) |-> LowerChar(s[i])]

FormatPem == <<"p", "e", "m">>

FormatP12 == <<"p", "1", "2">>

\* ------------------------------------------------------------------------
\* State
\* ------------------------------------------------------------------------

VARIABLES
    args,        \* the command line of the export command
    flags,       \* exportFlags, as parseExportFlags returns it
    files,       \* the filesystem: cleaned paths that are files
    dirs,        \* the filesystem: cleaned paths that are directories
    pc,          \* the statement the process is at
    certPath,    \* the chain walk's loop variable
    data,        \* the chain walk's buffer: the certificates read, in order
    archive,     \* the entries written to the tgz writer
    sink,        \* the tgz writer: "unopened", "open" or "closed"
    closeCount,  \* how often writer.close() has run
    tmpFile,     \* the temporary bundle file: "none", "exists" or "removed"
    ioLog,       \* the filesystem calls made so far
    encoders,    \* the encoders that have been called, in order
    cmdArgs,     \* the arguments of the openssl command
    caRead,      \* the path exportP12 read the external CA from
    stdout,      \* what the openssl child process wrote to os.Stdout
    finished,    \* "Finished Exporting Certificate" has been logged
    exit,        \* "running", "returned" or "fatal" (os.Exit(1))
    err,         \* the message of the fatal error
    ffPath,      \* findFile on its own: the path argument
    ffSuffix,    \* findFile on its own: the suffix argument
    ffRes,       \* findFile on its own: the result
    ffRes2,      \* findFile on its own: the result of resolving the result
    ffStage      \* findFile on its own: the calls made so far

vars == <<args, flags, files, dirs, pc, certPath, data, archive, sink,
          closeCount, tmpFile, ioLog, encoders, cmdArgs, caRead, stdout,
          finished, exit, err, ffPath, ffSuffix, ffRes, ffRes2, ffStage>>

exportVars == <<args, flags, pc, certPath, data, archive, sink, closeCount,
                tmpFile, ioLog, encoders, cmdArgs, caRead, stdout, finished,
                exit, err>>

ffVars == <<ffPath, ffSuffix, ffRes, ffRes2, ffStage>>

None == <<>>

\* ------------------------------------------------------------------------
\* Bounds and the inputs drawn
\* ------------------------------------------------------------------------

\* The chain walk is followed for at most this many certificates.
MaxData == 4

\* At most this many files of the tree are absent.
MaxMissing == 1

CaPem == <<"ca", "ca.pem">>

TreeDirs ==
    { <<".">>, <<"", "">>, <<"root">>, <<"root", "leaf">>, <<"ca">>,
      <<"", "root">>, <<"", "root", "leaf">> }

TreeFiles ==
    { <<"root", "root.pem">>, <<"root", "leaf", "leaf.pem">>,
      <<"root", "leaf", "leaf-key.pem">>, CaPem,
      <<"", ".pem">>, <<"", "root", "root.pem">>,
      <<"", "root", "leaf", "leaf.pem">>,
      <<"", "root", "leaf", "leaf-key.pem">> }

\* The filesystems: the tree with some files absent, and the tree whose
\* ca/ca.pem is a directory.
Worlds ==
    { [files |-> TreeFiles \ m, dirs |-> TreeDirs] :
        m \in { x \in SUBSET TreeFiles : Cardinality(x) <= MaxMissing } }
    \cup { [files |-> TreeFiles \ {CaPem}, dirs |-> TreeDirs \cup {CaPem}] }

\* The positional arguments: none, one target, or two.
Targets ==
    { <<"root", "leaf">>, <<".", "root", "", "leaf", "">>, <<"root">>,
      <<".">>, <<"", "root", "leaf">> }

Positionals ==
    { <<>> } \cup { <<t>> : t \in Targets }
             \cup { << <<"root">>, <<"root", "leaf">> >> }

\* -export-ca: not given, empty, a directory, a file, uncleaned, absent.
CAValues ==
    { nilString, EmptyString, <<"ca">>, CaPem, <<".", "ca", "">>,
      <<"nope">> }

\* -export-all: not given, empty, a directory.
AllValues == { nilString, EmptyString, <<"ca">> }

\* -export-format: the default "tgz", and "pem", "PEM", "Pem", "p12", "P12",
\* "P12 " (with a trailing blank).
Formats ==
    { <<"t", "g", "z">>, FormatPem, <<"P", "E", "M">>, <<"P", "e", "m">>,
      FormatP12, <<"P", "1", "2">>, <<"P", "1", "2", " ">> }

\* -pass-in: not given, the keys' password, another password.
PassIns == { nilString, <<"secret">>, <<"wrong">> }

PassOuts == { nilString, <<"secret2">> }

\* The password the keys of the tree are encrypted with.
KeyPassword == <<"secret">>

ArgsSet ==
    [ positional : Positionals, exportCrt : BOOLEAN, exportKey : BOOLEAN,
      exportCA : CAValues, exportFormat : Formats, passIn : PassIns,
      passOut : PassOuts, exportAll : AllValues ]

NoFlags ==
    [ path |-> EmptyString, exportCrt |-> FALSE, exportKey |-> FALSE,
      exportCA |-> EmptyString, exportFormat |-> <<>>, passIn |-> EmptyString,
      passOut |-> EmptyString ]

\* ------------------------------------------------------------------------
\* The filesystem and the collaborators
\* ------------------------------------------------------------------------

\* os.Stat of a cleaned path: "dir", "file" or "err".
Stat(path) ==
    IF path \in dirs THEN "dir"
    ELSE IF path \in files THEN "file"
    ELSE "err"

\* ReadCert succeeds on a file that exists, and is fatal otherwise.
ReadCertOK(file) == file \in files

\* ReadKey succeeds on a key file that exists, given its password.
ReadKeyOK(file, pwd) == file \in files /\ pwd = KeyPassword

\* MarshalCert(ReadCert(file)): the PEM block of the certificate in `file`.
MarshalCert(file) == <<file>>

\* os.Exit(1) of Logger.Fatal and Logger.Fatalf: no deferred call runs.
Fatal(msg) ==
    /\ exit' = "fatal"
    /\ err' = msg
    /\ pc' = "exited"

\* ------------------------------------------------------------------------
\* parseExportFlags, findFile
\* ------------------------------------------------------------------------

parseExportFlags(a) ==
    [ path         |-> Clean(a.positional[1]),
      exportCrt    |-> a.exportCrt \/ a.exportAll # nilString,
      exportKey    |-> a.exportKey \/ a.exportAll # nilString,
      exportCA     |-> IF a.exportAll # nilString /\ a.exportAll # EmptyString
                         THEN a.exportAll ELSE a.exportCA,
      exportFormat |-> a.exportFormat,
      passIn       |-> a.passIn,
      passOut      |-> a.passOut ]

\* The file findFile looks for in a directory.
findFileInDir(path, suffix) == Join(path, StrCat(Base(path), suffix))

\* findFile without the test that tells a file from a directory.
findFileNoIsDir(path, suffix) ==
    LET p == Clean(path)
        q == findFileInDir(p, suffix)
    IN  IF Stat(p) = "err" \/ Stat(q) # "file"
          THEN [ok |-> FALSE, path |-> EmptyString]
          ELSE [ok |-> TRUE, path |-> q]

findFile(path, suffix) ==
    LET p == Clean(path)
        q == findFileInDir(p, suffix)
    IN  IF Stat(p) = "err" THEN [ok |-> FALSE, path |-> EmptyString]
        ELSE IF Stat(p) = "dir"
          THEN IF Stat(q) = "err" THEN [ok |-> FALSE, path |-> EmptyString]
               ELSE IF Stat(q) = "dir"
                 THEN [ok |-> FALSE, path |-> EmptyString]
               ELSE [ok |-> TRUE, path |-> q]
        ELSE [ok |-> TRUE, path |-> p]

\* The os.Stat calls findFile makes.
findFileStats(path, suffix) ==
    LET p == Clean(path) IN
    { [op |-> "stat", path |-> p] } \cup
    IF Stat(p) = "dir"
      THEN { [op |-> "stat", path |-> findFileInDir(p, suffix)] }
      ELSE {}

\* ------------------------------------------------------------------------
\* The export command
\* ------------------------------------------------------------------------

\* parseExportFlags: exactly one positional argument, or a fatal error.
ParseExportFlags ==
    /\ pc = "parse"
    /\ IF Len(args.positional) = 1
         THEN /\ flags' = parseExportFlags(args)
              /\ pc' = "export"
              /\ UNCHANGED <<exit, err>>
         ELSE /\ Fatal("Failed to parse command line options")
              /\ UNCHANGED flags
    /\ UNCHANGED <<args, files, dirs, certPath, data, archive, sink,
                   closeCount, tmpFile, ioLog, encoders, cmdArgs, caRead,
                   stdout, finished>>
    /\ UNCHANGED ffVars

\* exportCertificate, to the external CA's lookup.
ExportResolveCA ==
    /\ pc = "export"
    /\ IF flags.exportCA # EmptyString
         THEN LET r == findFile(flags.exportCA, ".pem") IN
              /\ ioLog' = ioLog \cup findFileStats(flags.exportCA, ".pem")
              /\ IF r.ok
                   THEN /\ flags' = [flags EXCEPT !.exportCA = r.path]
                        /\ pc' = "open"
                        /\ UNCHANGED <<exit, err>>
                   ELSE /\ Fatal("Failed to find ca certificate")
                        /\ UNCHANGED flags
         ELSE /\ pc' = "open"
              /\ UNCHANGED <<flags, ioLog, exit, err>>
    /\ UNCHANGED <<args, files, dirs, certPath, data, archive, sink,
                   closeCount, tmpFile, encoders, cmdArgs, caRead, stdout,
                   finished>>
    /\ UNCHANGED ffVars

\* The encoder exportCertificate's switch calls: "pem", "p12" or none.
dispatch(format) ==
    CASE ToLower(format) = FormatPem -> "pemCA"
      [] ToLower(format) = FormatP12 -> "p12Args"
      [] OTHER                   -> "finish"

\* exportCertificate: the writer on os.Stdout, its deferred close, the switch.
ExportOpenDispatch ==
    /\ pc = "open"
    /\ sink' = "open"
    /\ pc' = dispatch(flags.exportFormat)
    /\ encoders' = IF dispatch(flags.exportFormat) = "pemCA"
                     THEN Append(encoders, "exportPEM")
                   ELSE IF dispatch(flags.exportFormat) = "p12Args"
                     THEN Append(encoders, "exportP12")
                   ELSE encoders
    /\ UNCHANGED <<args, flags, files, dirs, certPath, data, archive,
                   closeCount, tmpFile, ioLog, cmdArgs, caRead, stdout,
                   finished, exit, err>>
    /\ UNCHANGED ffVars

\* The name of an archive entry: filepath.Join(name, file).
entryName(file) == Join(Base(flags.path), <<file>>)

\* The certificate file of a node of the tree.
certFile(path) == Join(path, StrCat(Base(path), ".pem"))

\* The key file of the target node.
keyFile == Join(flags.path, StrCat(Base(flags.path), "-key.pem"))

\* exportPEM: the external CA's certificate, written as ca.pem; then, with
\* -export-crt, the chain walk starts at the target.
PemCA ==
    /\ pc = "pemCA"
    /\ IF flags.exportCA # EmptyString
         THEN /\ ioLog' = ioLog \cup {[op |-> "read", path |-> flags.exportCA]}
              /\ IF ReadCertOK(flags.exportCA)
                   THEN /\ archive' = Append(archive,
                               [name |-> entryName("ca.pem"),
                                data |-> MarshalCert(flags.exportCA)])
                        /\ pc' = "pemWalk"
                        /\ UNCHANGED <<exit, err>>
                   ELSE /\ Fatal("Failed to read certificate")
                        /\ UNCHANGED archive
         ELSE /\ pc' = "pemWalk"
              /\ UNCHANGED <<archive, ioLog, exit, err>>
    /\ IF pc' = "pemWalk" /\ flags.exportCrt
         THEN /\ certPath' = flags.path
              /\ data' = <<>>
         ELSE UNCHANGED <<certPath, data>>
    /\ UNCHANGED <<args, flags, files, dirs, sink, closeCount, tmpFile,
                   encoders, cmdArgs, caRead, stdout, finished>>
    /\ UNCHANGED ffVars

\* The condition of exportPEM's loop.
pemWalkGoesOn(path) == Base(path) # <<".">>

\* The condition of exportP12's loop.
p12WalkGoesOn(path) == path # <<".">>

\* The loop's body with the certificate put in front of the buffer.
walkPrepend(buf, path) == MarshalCert(certFile(path)) \o buf

\* The body of the chain walk's loop: one more certificate in the buffer.
walkAppend(buf, path) == buf \o MarshalCert(certFile(path))

\* exportPEM: one turn of the chain walk's loop.
PemWalkStep ==
    /\ pc = "pemWalk"
    /\ flags.exportCrt
    /\ pemWalkGoesOn(certPath)
    /\ Len(data) < MaxData
    /\ ioLog' = ioLog \cup {[op |-> "read", path |-> certFile(certPath)]}
    /\ IF ReadCertOK(certFile(certPath))
         THEN /\ data' = walkAppend(data, certPath)
              /\ certPath' = Dir(certPath)
              /\ UNCHANGED <<pc, exit, err>>
         ELSE /\ Fatal("Failed to read certificate")
              /\ UNCHANGED <<data, certPath>>
    /\ UNCHANGED <<args, flags, files, dirs, archive, sink, closeCount,
                   tmpFile, encoders, cmdArgs, caRead, stdout, finished>>
    /\ UNCHANGED ffVars

\* exportPEM: the chain is written as cert.pem, when -export-crt is set.
PemWriteCert ==
    /\ pc = "pemWalk"
    /\ IF flags.exportCrt
         THEN /\ ~pemWalkGoesOn(certPath)
              /\ archive' = Append(archive,
                     [name |-> entryName("cert.pem"), data |-> data])
         ELSE UNCHANGED archive
    /\ pc' = "pemKey"
    /\ UNCHANGED <<args, flags, files, dirs, certPath, data, sink,
                   closeCount, tmpFile, ioLog, encoders, cmdArgs, caRead,
                   stdout, finished, exit, err>>
    /\ UNCHANGED ffVars

\* exportPEM: the key, when -export-key is set and the key file exists.
PemKey ==
    /\ pc = "pemKey"
    /\ IF flags.exportKey
         THEN IF Stat(keyFile) # "err"
                THEN /\ ioLog' = ioLog \cup {[op |-> "stat", path |-> keyFile],
                                             [op |-> "read", path |-> keyFile]}
                     /\ IF ReadKeyOK(keyFile, flags.passIn)
                          THEN /\ archive' = Append(archive,
                                      [name |-> entryName("key.pem"),
                                       data |-> <<[key |-> keyFile,
                                                   pwd |-> flags.passOut]>>])
                               /\ pc' = "finish"
                               /\ UNCHANGED <<exit, err>>
                          ELSE /\ Fatal("Failed to read key")
                               /\ UNCHANGED archive
                ELSE /\ ioLog' = ioLog \cup {[op |-> "stat", path |-> keyFile]}
                     /\ pc' = "finish"
                     /\ UNCHANGED <<archive, exit, err>>
         ELSE /\ pc' = "finish"
              /\ UNCHANGED <<archive, ioLog, exit, err>>
    /\ UNCHANGED <<args, flags, files, dirs, certPath, data, sink,
                   closeCount, tmpFile, encoders, cmdArgs, caRead, stdout,
                   finished>>
    /\ UNCHANGED ffVars

\* The arguments exportP12 gives openssl, before "-in".
opensslArgs ==
    <<"pkcs12", "-export", "-name", Base(flags.path), "-inkey", keyFile>>
    \o (IF flags.passIn # nilString
          THEN <<"-passin", <<"pass:", flags.passIn>> >> ELSE <<>>)
    \o <<"-aes256", "-passout", <<"pass:", flags.passOut>> >>

\* exportP12: the arguments, without -pass-out a fatal error; then the
\* chain walk starts at the target.
P12Args ==
    /\ pc = "p12Args"
    /\ IF flags.passOut = nilString
         THEN /\ Fatal("-passOut flag required for .p12 format")
              /\ UNCHANGED <<cmdArgs, certPath, data>>
         ELSE /\ cmdArgs' = opensslArgs
              /\ certPath' = flags.path
              /\ data' = <<>>
              /\ pc' = "p12Walk"
              /\ UNCHANGED <<exit, err>>
    /\ UNCHANGED <<args, flags, files, dirs, archive, sink, closeCount,
                   tmpFile, ioLog, encoders, caRead, stdout, finished>>
    /\ UNCHANGED ffVars

\* exportP12: one turn of the chain walk's loop.
P12WalkStep ==
    /\ pc = "p12Walk"
    /\ p12WalkGoesOn(certPath)
    /\ Len(data) < MaxData
    /\ ioLog' = ioLog \cup {[op |-> "read", path |-> certFile(certPath)]}
    /\ IF ReadCertOK(certFile(certPath))
         THEN /\ data' = walkAppend(data, certPath)
              /\ certPath' = Dir(certPath)
              /\ UNCHANGED <<pc, exit, err>>
         ELSE /\ Fatal("Failed to read certificate")
              /\ UNCHANGED <<data, certPath>>
    /\ UNCHANGED <<args, flags, files, dirs, archive, sink, closeCount,
                   tmpFile, encoders, cmdArgs, caRead, stdout, finished>>
    /\ UNCHANGED ffVars

\* exportP12: the end of the chain walk.
P12WalkEnd ==
    /\ pc = "p12Walk"
    /\ ~p12WalkGoesOn(certPath)
    /\ pc' = "p12CA"
    /\ UNCHANGED <<args, flags, files, dirs, certPath, data, archive, sink,
                   closeCount, tmpFile, ioLog, encoders, cmdArgs, caRead,
                   stdout, finished, exit, err>>
    /\ UNCHANGED ffVars

\* The file exportP12 reads the external CA's certificate from.
p12CAFile == Join(flags.exportCA, StrCat(Base(flags.exportCA), ".pem"))

\* exportP12: the external CA's certificate, appended to the buffer.
P12CA ==
    /\ pc = "p12CA"
    /\ IF flags.exportCA # EmptyString
         THEN /\ ioLog' = ioLog \cup {[op |-> "read", path |-> p12CAFile]}
              /\ caRead' = p12CAFile
              /\ IF ReadCertOK(p12CAFile)
                   THEN /\ data' = data \o MarshalCert(p12CAFile)
                        /\ pc' = "p12Tmp"
                        /\ UNCHANGED <<exit, err>>
                   ELSE /\ Fatal("Failed to read certificate")
                        /\ UNCHANGED data
         ELSE /\ pc' = "p12Tmp"
              /\ UNCHANGED <<data, ioLog, caRead, exit, err>>
    /\ UNCHANGED <<args, flags, files, dirs, certPath, archive, sink,
                   closeCount, tmpFile, encoders, cmdArgs, stdout, finished>>
    /\ UNCHANGED ffVars

\* exportP12: ioutil.TempFile and the write of the buffer; either may fail.
P12TempFile ==
    /\ pc = "p12Tmp"
    /\ \E outcome \in {"createFails", "writeFails", "written"} :
         /\ tmpFile' = IF outcome = "createFails" THEN "none" ELSE "exists"
         /\ IF outcome = "createFails"
              THEN Fatal("Failed to create temporary cert file")
            ELSE IF outcome = "writeFails"
              THEN Fatal("Failed to write to temporary cert file")
            ELSE /\ pc' = "p12Run"
                 /\ UNCHANGED <<exit, err>>
    /\ UNCHANGED <<args, flags, files, dirs, certPath, data, archive, sink,
                   closeCount, ioLog, encoders, cmdArgs, caRead, stdout,
                   finished>>
    /\ UNCHANGED ffVars

\* openssl can package the bundle when it can read the key: the key file
\* exists and the pass phrase is right. With -pass-in the pass phrase is the
\* one on the command line; without it the command has no -passin and
\* openssl asks the controlling terminal, where the right one may be typed
\* (and without a terminal openssl fails).
opensslCanSucceed ==
    /\ keyFile \in files
    /\ flags.passIn = nilString \/ flags.passIn = KeyPassword

\* exportP12: the deferred removal is registered, openssl runs on the
\* temporary file and writes to os.Stdout; a failure of it is fatal.
P12RunOpenssl ==
    /\ pc = "p12Run"
    /\ cmdArgs' = cmdArgs \o <<"-in", "tmpFile">>
    /\ \E ok \in (IF opensslCanSucceed THEN BOOLEAN ELSE {FALSE}) :
         IF ok
           THEN /\ stdout' = Append(stdout, [p12 |-> data])
                /\ pc' = "p12Defer"
                /\ UNCHANGED <<exit, err>>
           ELSE /\ Fatal("Error running openssl")
                /\ UNCHANGED stdout
    /\ UNCHANGED <<args, flags, files, dirs, certPath, data, archive, sink,
                   closeCount, tmpFile, ioLog, encoders, caRead, finished>>
    /\ UNCHANGED ffVars

\* exportP12 returns: the deferred os.Remove of the temporary file runs; a
\* failure of it is fatal.
P12Return ==
    /\ pc = "p12Defer"
    /\ \E removed \in BOOLEAN :
         IF removed
           THEN /\ tmpFile' = "removed"
                /\ pc' = "finish"
                /\ UNCHANGED <<exit, err>>
           ELSE /\ Fatal("Failed to close temporary cert file")
                /\ UNCHANGED tmpFile
    /\ UNCHANGED <<args, flags, files, dirs, certPath, data, archive, sink,
                   closeCount, ioLog, encoders, cmdArgs, caRead, stdout,
                   finished>>
    /\ UNCHANGED ffVars

\* exportCertificate: the last log line, and on return the deferred
\* writer.close().
ExportFinish ==
    /\ pc = "finish"
    /\ finished' = TRUE
    /\ sink' = "closed"
    /\ closeCount' = closeCount + 1
    /\ exit' = "returned"
    /\ pc' = "exited"
    /\ UNCHANGED <<args, flags, files, dirs, certPath, data, archive,
                   tmpFile, ioLog, encoders, cmdArgs, caRead, stdout, err>>
    /\ UNCHANGED ffVars

\* ------------------------------------------------------------------------
\* findFile on its own
\* ------------------------------------------------------------------------

FFPaths ==
    { <<"ca">>, CaPem, <<".", "ca", "">>, <<".", "ca", "ca.pem">>,
      <<"ca", "..", "ca", "ca.pem">>, <<"nope">>, <<"root">>,
      <<"root", "leaf">>, <<"root", "leaf", "">>,
      <<"root", "leaf", "leaf-key.pem">>, <<"", "root", "leaf">>,
      <<"", "">>, <<".">>, <<"">>, nilString }

FFSuffixes == { ".pem", "-key.pem" }

\* findFile(ffPath, ffSuffix).
FFResolve ==
    /\ ffStage = 0
    /\ ffRes' = findFile(ffPath, ffSuffix)
    /\ ffStage' = 1
    /\ UNCHANGED <<ffPath, ffSuffix, ffRes2, files, dirs>>
    /\ UNCHANGED exportVars

\* findFile on the path findFile returned.
FFResolveAgain ==
    /\ ffStage = 1
    /\ ffRes.ok
    /\ ffRes2' = findFile(ffRes.path, ffSuffix)
    /\ ffStage' = 2
    /\ UNCHANGED <<ffPath, ffSuffix, ffRes, files, dirs>>
    /\ UNCHANGED exportVars

\* ------------------------------------------------------------------------
\* Specifications
\* ------------------------------------------------------------------------

ExportIdle ==
    /\ flags = NoFlags
    /\ certPath = EmptyString
    /\ data = <<>>
    /\ archive = <<>>
    /\ sink = "unopened"
    /\ closeCount = 0
    /\ tmpFile = "none"
    /\ ioLog = {}
    /\ encoders = <<>>
    /\ cmdArgs = <<>>
    /\ caRead = None
    /\ stdout = <<>>
    /\ finished = FALSE
    /\ exit = "running"
    /\ err = ""

FFIdle ==
    /\ ffPath = EmptyString
    /\ ffSuffix = ""
    /\ ffRes = None
    /\ ffRes2 = None

\* The export command, started on a command line and a filesystem.
Init ==
    /\ args \in ArgsSet
    /\ \E w \in Worlds : files = w.files /\ dirs = w.dirs
    /\ pc = "parse"
    /\ ExportIdle
    /\ FFIdle
    /\ ffStage = -1

Next ==
    \/ ParseExportFlags
    \/ ExportResolveCA
    \/ ExportOpenDispatch
    \/ PemCA
    \/ PemWalkStep
    \/ PemWriteCert
    \/ PemKey
    \/ P12Args
    \/ P12WalkStep
    \/ P12WalkEnd
    \/ P12CA
    \/ P12TempFile
    \/ P12RunOpenssl
    \/ P12Return
    \/ ExportFinish

Spec == Init /\ [][Next]_vars

\* findFile, called on a path and a suffix in a filesystem.
FFInit ==
    /\ args = None
    /\ \E w \in Worlds : files = w.files /\ dirs = w.dirs
    /\ pc = "findFile"
    /\ ExportIdle
    /\ ffPath \in FFPaths
    /\ ffSuffix \in FFSuffixes
    /\ ffRes = None
    /\ ffRes2 = None
    /\ ffStage = 0

FFNext ==
    \/ FFResolve
    \/ FFResolveAgain

FFSpec == FFInit /\ [][FFNext]_vars

\* ------------------------------------------------------------------------
\* Claims
\* ------------------------------------------------------------------------

\* C1: once the temporary bundle file has been created, it no longer exists
\* when the process has returned or terminated, on every exit path.
C1_TempFileGoneOnExit ==
    exit # "running" => tmpFile # "exists"

\* The request of C2: format p12, key export, no output password.
P12KeyNoPassOut ==
    /\ pc # "parse"
    /\ exit # "fatal" \/ err # "Failed to parse command line options"
    /\ ToLower(flags.exportFormat) = FormatP12
    /\ flags.exportKey
    /\ flags.passOut = nilString

\* C2: a p12 request with key export and no output password is rejected
\* with the configuration error before any file I/O: no stat or read, no
\* temporary file, the sink not opened, no output written.
C2_RejectedBeforeAnyIO ==
    P12KeyNoPassOut =>
        /\ ioLog = {}
        /\ tmpFile = "none"
        /\ sink = "unopened"
        /\ archive = <<>>
        /\ stdout = <<>>
        /\ exit # "returned"
        /\ exit = "fatal" => err = "-passOut flag required for .p12 format"

\* C3: the sink exportCertificate opened is closed exactly once on every
\* exit path, after success and after a fatal failure in an encoder.
C3_SinkClosedExactlyOnce ==
    /\ closeCount <= 1
    /\ (exit # "running" /\ sink # "unopened") => closeCount = 1

\* C4: when a resolving or collecting step fails (the CA lookup, a
\* certificate read, the key read), nothing has been written to the sink.
C4_NoOutputBeforeFailure ==
    (exit = "fatal" /\ err \in {"Failed to find ca certificate",
                                "Failed to read certificate",
                                "Failed to read key"})
        => archive = <<>> /\ stdout = <<>>

\* The chain of a cleaned relative path p: <q>/<basename(q)>.pem for
\* q = p, parent(p), ..., leaf first, down to the first element of p.
ChainOf(p) ==
    IF p = <<".">> THEN <<>>
    ELSE [i \in 1..Len(p) |->
            LET k == Len(p) - i + 1
            IN  SubSeq(p, 1, k) \o <<p[k] \o ".pem">>]

\* C5: the certificates the chain walk assembles (cert.pem in exportPEM,
\* the bundle buffer in exportP12) are those of the target, its parent, its
\* parent's parent, ..., leaf first, each once, and the walk ends at the
\* path whose basename is itself.
C5_ChainLeafFirst ==
    /\ \A i \in 1..Len(archive) :
         archive[i].name = entryName("cert.pem")
            => /\ archive[i].data = ChainOf(flags.path)
               /\ Base(certPath) = certPath
    /\ pc = "p12CA"
         => /\ data = ChainOf(flags.path)
            /\ Base(certPath) = certPath
    /\ pc \in {"p12Tmp", "p12Run", "p12Defer"}
         => SubSeq(data, 1, Len(ChainOf(flags.path))) = ChainOf(flags.path)

\* C5's case: exportPEM has written the chain of root/leaf as cert.pem.
C5_Witness ==
    /\ pc = "pemKey"
    /\ flags.path = <<"root", "leaf">>
    /\ \E i \in 1..Len(archive) :
         /\ archive[i].name = <<"leaf", "cert.pem">>
         /\ archive[i].data = << <<"root", "leaf", "leaf.pem">>,
                                 <<"root", "root.pem">> >>

\* C6: an export that gets past resolving runs exactly one encoder, and is
\* never reported finished without one having run.
C6_ExactlyOneEncoder ==
    /\ Len(encoders) <= 1
    /\ finished => Len(encoders) = 1

\* C7 as amended: findFile returns the cleaned path when it names a file,
\* <cleaned path>/<its basename><suffix> when it names a directory and that
\* file exists and is no directory, and fails otherwise; resolving a result
\* again returns it.
C7_FindFileCleanIdempotent ==
    /\ ffStage >= 1 =>
         LET p == Clean(ffPath)
             q == Join(p, StrCat(Base(p), ffSuffix))
         IN  IF p \in files
               THEN ffRes = [ok |-> TRUE, path |-> p]
             ELSE IF p \in dirs /\ q \in files
               THEN ffRes = [ok |-> TRUE, path |-> q]
             ELSE ~ffRes.ok
    /\ ffStage = 2 => ffRes2 = ffRes

\* C7's case: a directory given uncleaned resolves to its certificate, and
\* resolving that again returns it.
C7_Witness ==
    /\ ffStage = 2
    /\ ffPath = <<".", "ca", "">>
    /\ ffRes = [ok |-> TRUE, path |-> CaPem]
    /\ ffRes2 = ffRes

\* C7 as stated: findFile returns path unchanged when it names a file,
\* path/basename(path)+suffix when it names a directory and that file
\* exists, and fails otherwise; resolving a result again returns it.
C7_FindFilePathUnchanged ==
    /\ ffStage >= 1 =>
         LET p == Clean(ffPath)
             q == Join(p, StrCat(Base(p), ffSuffix))
         IN  IF p \in files
               THEN ffRes = [ok |-> TRUE, path |-> ffPath]
             ELSE IF p \in dirs /\ q \in files
               THEN ffRes = [ok |-> TRUE, path |-> q]
             ELSE ~ffRes.ok
    /\ ffStage = 2 => ffRes2 = ffRes

\* No external CA was supplied: neither -export-ca nor a non-empty
\* -export-all.
NoCASupplied ==
    /\ pc # "findFile"
    /\ args.exportCA = nilString
    /\ args.exportAll \in {nilString, EmptyString}

\* C8: a request that supplies no external CA makes no external-CA lookup,
\* cannot fail with "Failed to find ca certificate", and puts no CA
\* certificate in the bundle.
C8_NoLookupWithoutCA ==
    NoCASupplied =>
        /\ \A io \in ioLog : io.path # nilString
        /\ err # "Failed to find ca certificate"
        /\ \A i \in 1..Len(archive) : archive[i].name # entryName("ca.pem")
        /\ caRead = None

\* C9: the external CA certificate exportP12 appends is read from the path
\* findFile resolved in exportCertificate, the file exportPEM writes as
\* ca.pem.
C9_P12ReadsResolvedCA ==
    caRead # None => caRead = flags.exportCA

\* C10: the chain walks terminate for every cleaned target path, relative or
\* absolute, when every read succeeds: each turn of the loop moves to a
\* parent that differs from the current path, until the stop condition.
C10_WalkTerminates ==
    [][(pc \in {"pemWalk", "p12Walk"} /\ pc' = pc) => certPath' # certPath]_vars

====
